---- MODULE Spec2Model ----
(***************************************************************************)
(* Model of prefect/orion/schemas/filters.py: the Pagination bounds, the   *)
(* root validators of PrefectFilterBaseModel, the leaf filters and the     *)
(* composite filters (FlowFilter, FlowRunFilter, TaskRunFilter) with their *)
(* as_sql_filter methods.                                                  *)
(*                                                                         *)
(* An optional Python value is a sequence of length <= 1: None is <<>> and *)
(* a present value v is <<v>>.  A list is a sequence, a datetime a number. *)
(* A constructed model instance is the record of its field values.         *)
(***************************************************************************)
EXTENDS Integers, Sequences, FiniteSets

\* ---------------------------------------------------------------- bounds
MaxElem == 1       \* list elements (uuids, names, tags, state types) are 1..MaxElem
MaxTime == 1       \* datetimes are 0..MaxTime
MaxLeaves == 2     \* most leaf payloads in one composite input
MaxOffset == 1     \* largest offset given to Pagination
default_limit == 2 \* prefect.settings.orion.api.default_limit, scaled down
MaxCompiles == 2   \* most as_sql_filter calls on one instance

\* ---------------------------------------------------------------- values
None == <<>>
Some(v) == <<v>>
Opt(S) == {None} \cup {Some(v) : v \in S}

Elems == 1..MaxElem
\* a list is empty or holds one element: the code tells None, [] and a
\* non-empty list apart and otherwise passes the list on untouched
Lists == {<<>>} \cup {<<e>> : e \in Elems}
Times == 0..MaxTime

\* dict.get(key): the value, or None when the key is not a field of the model
Get(values, key) == IF key \in DOMAIN values THEN values[key] ELSE None

\* Python truth value of an optional bool: None and False are falsy
TruthyBool(v) == v = Some(TRUE)
\* Python truth value of an optional list: None and [] are falsy
TruthyList(v) == v # None /\ Len(v[1]) > 0
\* Python truth value of an optional datetime: only None is falsy
TruthyDatetime(v) == v # None

\* ---------------------------------------------------------------- predicate nodes
In(col, v) == [op |-> "IN", field |-> col, arg |-> v]
NotIn(col, v) == [op |-> "NOT_IN", field |-> col, arg |-> v]
Superset(col, v) == [op |-> "SUPERSET", field |-> col, arg |-> v]
IsEmpty(col) == [op |-> "IS_EMPTY", field |-> col]
IsNotEmpty(col) == [op |-> "IS_NOT_EMPTY", field |-> col]
Le(col, v) == [op |-> "LE", field |-> col, arg |-> v]
Ge(col, v) == [op |-> "GE", field |-> col, arg |-> v]
Between(col, lo, hi) == [op |-> "BETWEEN", field |-> col, low |-> lo, high |-> hi]
And(cs) == [op |-> "AND", children |-> cs]
TrueLiteral == [op |-> "TRUE"]
\* what a Python method returns when it falls off its last branch
PyNone == [op |-> "None"]
\* an exception raised while building the expression
CompileError == [op |-> "Error"]

\* column.in_(x), column.not_in(x), json_has_all_keys(column, x): x must be a list
in_(col, v) == IF v = None THEN CompileError ELSE In(col, v[1])
not_in(col, v) == IF v = None THEN CompileError ELSE NotIn(col, v[1])
json_has_all_keys(col, v) == IF v = None THEN CompileError ELSE Superset(col, v[1])

\* ---------------------------------------------------------------- Pagination
PaginationInputs == [limit : Opt(-1..(default_limit + 1)), offset : Opt(-1..MaxOffset)]

\* variant: the upper bound taken as exclusive (lt for le)
LimitInRange_exclusive(n) == n >= 0 /\ n < default_limit

\* conint(ge=0, le=default_limit) on a supplied limit
LimitInRange(n) == n >= 0 /\ n <= default_limit
\* conint(ge=0) on a supplied offset
OffsetInRange(n) == n >= 0

\* field validation runs on supplied values only; a default is taken as it is
PaginationErrors(inp) ==
  (IF inp.limit # None /\ ~LimitInRange(inp.limit[1]) THEN {"OutOfRange"} ELSE {})
  \cup (IF inp.offset # None /\ ~OffsetInRange(inp.offset[1]) THEN {"OutOfRange"} ELSE {})

PaginationValues(inp) ==
  [limit |-> IF inp.limit = None THEN default_limit ELSE inp.limit[1],
   offset |-> IF inp.offset = None THEN 0 ELSE inp.offset[1]]

\* ---------------------------------------------------------------- root validators
\* variant: all() written for any(), so one absent operator already fails
check_at_least_one_operator_all_for_any(values) ==
  IF ~(\A k \in DOMAIN values : values[k] # None) THEN {"MissingOperator"} ELSE {}

check_at_least_one_operator_is_not_none(values) ==
  IF ~(\E k \in DOMAIN values : values[k] # None) THEN {"MissingOperator"} ELSE {}

check_all_and_is_null_are_not_both_supplied(values) ==
  IF Get(values, "all_") # None /\ TruthyBool(Get(values, "is_null_"))
  THEN {"ConflictingOperators"} ELSE {}

check_any_and_is_null_are_not_both_supplied(values) ==
  IF Get(values, "any_") # None /\ TruthyBool(Get(values, "is_null_"))
  THEN {"ConflictingOperators"} ELSE {}

check_any_and_is_not_any_are_not_both_supplied(values) ==
  IF Get(values, "any_") # None /\ TruthyList(Get(values, "not_any_"))
  THEN {"ConflictingOperators"} ELSE {}

\* variant: <= written for <, so equal bounds are rejected too
check_before_and_after_rejecting_equal(values) ==
  IF Get(values, "before_") # None /\ Get(values, "after_") # None
  THEN IF Get(values, "before_")[1] <= Get(values, "after_")[1]
       THEN {"InvalidRange"} ELSE {}
  ELSE {}

check_before_and_after_are_not_mutually_exclusive(values) ==
  IF Get(values, "before_") # None /\ Get(values, "after_") # None
  THEN IF Get(values, "before_")[1] < Get(values, "after_")[1]
       THEN {"InvalidRange"} ELSE {}
  ELSE {}

\* every root validator of the base model runs; the errors are collected
RootValidate(values) ==
  check_at_least_one_operator_is_not_none(values)
  \cup check_all_and_is_null_are_not_both_supplied(values)
  \cup check_any_and_is_null_are_not_both_supplied(values)
  \cup check_any_and_is_not_any_are_not_both_supplied(values)
  \cup check_before_and_after_are_not_mutually_exclusive(values)

\* ---------------------------------------------------------------- leaf filters
LeafTypes ==
  {"FlowFilterId", "FlowFilterName", "FlowFilterTags",
   "FlowRunFilterId", "FlowRunFilterTags", "FlowRunFilterDeploymentId",
   "FlowRunFilterStateType", "FlowRunFilterFlowVersion",
   "FlowRunFilterStartTime", "FlowRunFilterExpectedStartTime",
   "FlowRunFilterNextScheduledStartTime", "FlowRunFilterParentTaskRunId",
   "TaskRunFilterId", "TaskRunFilterTags", "TaskRunFilterStateType",
   "TaskRunFilterStartTime"}

\* the declared fields of each leaf class, as the set of its possible inputs
\* (an omitted field takes its default, None)
LeafInputs(t) ==
  CASE t \in {"FlowFilterId", "FlowFilterName", "FlowRunFilterStateType",
              "FlowRunFilterFlowVersion", "TaskRunFilterId", "TaskRunFilterStateType"}
         -> [any_ : Opt(Lists)]
    [] t \in {"FlowFilterTags", "FlowRunFilterTags", "TaskRunFilterTags"}
         -> [all_ : Opt(Lists), is_null_ : Opt(BOOLEAN)]
    [] t = "FlowRunFilterId"
         -> [any_ : Opt(Lists), not_any_ : Opt(Lists)]
    [] t \in {"FlowRunFilterDeploymentId", "FlowRunFilterParentTaskRunId"}
         -> [any_ : Opt(Lists), is_null_ : Opt(BOOLEAN)]
    [] t \in {"FlowRunFilterStartTime", "FlowRunFilterExpectedStartTime",
              "FlowRunFilterNextScheduledStartTime", "TaskRunFilterStartTime"}
         -> [before_ : Opt(Times), after_ : Opt(Times)]

FlowFilterId_as_sql_filter(self) == in_("Flow.id", self.any_)

FlowFilterName_as_sql_filter(self) == in_("Flow.name", self.any_)

FlowFilterTags_as_sql_filter(self) ==
  IF self.all_ # None THEN json_has_all_keys("Flow.tags", self.all_)
  ELSE IF self.is_null_ # None
       THEN (IF self.is_null_[1] THEN IsEmpty("Flow.tags") ELSE IsNotEmpty("Flow.tags"))
       ELSE PyNone

\* variant: the second branch tests the truth value of not_any_, not its presence
FlowRunFilterId_as_sql_filter_truthy(self) ==
  IF self.any_ # None THEN in_("FlowRun.id", self.any_)
  ELSE IF TruthyList(self.not_any_) THEN not_in("FlowRun.id", self.not_any_)
       ELSE PyNone

FlowRunFilterId_as_sql_filter(self) ==
  IF self.any_ # None THEN in_("FlowRun.id", self.any_)
  ELSE IF self.not_any_ # None THEN not_in("FlowRun.id", self.not_any_)
       ELSE PyNone

FlowRunFilterTags_as_sql_filter(self) ==
  IF self.all_ # None THEN json_has_all_keys("FlowRun.tags", self.all_)
  ELSE IF self.is_null_ # None
       THEN (IF self.is_null_[1] THEN IsEmpty("FlowRun.tags") ELSE IsNotEmpty("FlowRun.tags"))
       ELSE PyNone

FlowRunFilterDeploymentId_as_sql_filter(self) ==
  IF self.any_ # None THEN in_("FlowRun.deployment_id", self.any_)
  ELSE IF self.is_null_ # None
       THEN (IF self.is_null_[1] THEN IsEmpty("FlowRun.deployment_id")
                                 ELSE IsNotEmpty("FlowRun.deployment_id"))
       ELSE PyNone

FlowRunFilterStateType_as_sql_filter(self) == in_("FlowRun.state_type", self.any_)

FlowRunFilterFlowVersion_as_sql_filter(self) == in_("FlowRun.flow_version", self.any_)

FlowRunFilterStartTime_as_sql_filter(self) ==
  IF TruthyDatetime(self.before_) /\ TruthyDatetime(self.after_)
  THEN Between("FlowRun.start_time", self.after_[1], self.before_[1])
  ELSE IF TruthyDatetime(self.before_) THEN Le("FlowRun.start_time", self.before_[1])
  ELSE IF TruthyDatetime(self.after_) THEN Ge("FlowRun.start_time", self.after_[1])
  ELSE PyNone

FlowRunFilterExpectedStartTime_as_sql_filter(self) ==
  IF TruthyDatetime(self.before_) /\ TruthyDatetime(self.after_)
  THEN Between("FlowRun.expected_start_time", self.after_[1], self.before_[1])
  ELSE IF TruthyDatetime(self.before_) THEN Le("FlowRun.expected_start_time", self.before_[1])
  ELSE IF TruthyDatetime(self.after_) THEN Ge("FlowRun.expected_start_time", self.after_[1])
  ELSE PyNone

FlowRunFilterNextScheduledStartTime_as_sql_filter(self) ==
  IF TruthyDatetime(self.before_) /\ TruthyDatetime(self.after_)
  THEN Between("FlowRun.next_scheduled_start_time", self.after_[1], self.before_[1])
  ELSE IF TruthyDatetime(self.before_)
       THEN Le("FlowRun.next_scheduled_start_time", self.before_[1])
  ELSE IF TruthyDatetime(self.after_)
       THEN Ge("FlowRun.next_scheduled_start_time", self.after_[1])
  ELSE PyNone

FlowRunFilterParentTaskRunId_as_sql_filter(self) ==
  IF self.any_ # None THEN in_("FlowRun.parent_task_run_id", self.any_)
  ELSE IF self.is_null_ # None
       THEN (IF self.is_null_[1] THEN IsEmpty("FlowRun.parent_task_run_id")
                                 ELSE IsNotEmpty("FlowRun.parent_task_run_id"))
       ELSE PyNone

TaskRunFilterId_as_sql_filter(self) == in_("TaskRun.id", self.any_)

TaskRunFilterTags_as_sql_filter(self) ==
  IF self.all_ # None THEN json_has_all_keys("TaskRun.tags", self.all_)
  ELSE IF self.is_null_ # None
       THEN (IF self.is_null_[1] THEN IsEmpty("TaskRun.tags") ELSE IsNotEmpty("TaskRun.tags"))
       ELSE PyNone

TaskRunFilterStateType_as_sql_filter(self) == in_("TaskRun.state_type", self.any_)

TaskRunFilterStartTime_as_sql_filter(self) ==
  IF TruthyDatetime(self.before_) /\ TruthyDatetime(self.after_)
  THEN Between("TaskRun.start_time", self.after_[1], self.before_[1])
  ELSE IF TruthyDatetime(self.before_) THEN Le("TaskRun.start_time", self.before_[1])
  ELSE IF TruthyDatetime(self.after_) THEN Ge("TaskRun.start_time", self.after_[1])
  ELSE PyNone

\* method dispatch on the class of a leaf
LeafCompile(t, self) ==
  CASE t = "FlowFilterId" -> FlowFilterId_as_sql_filter(self)
    [] t = "FlowFilterName" -> FlowFilterName_as_sql_filter(self)
    [] t = "FlowFilterTags" -> FlowFilterTags_as_sql_filter(self)
    [] t = "FlowRunFilterId" -> FlowRunFilterId_as_sql_filter(self)
    [] t = "FlowRunFilterTags" -> FlowRunFilterTags_as_sql_filter(self)
    [] t = "FlowRunFilterDeploymentId" -> FlowRunFilterDeploymentId_as_sql_filter(self)
    [] t = "FlowRunFilterStateType" -> FlowRunFilterStateType_as_sql_filter(self)
    [] t = "FlowRunFilterFlowVersion" -> FlowRunFilterFlowVersion_as_sql_filter(self)
    [] t = "FlowRunFilterStartTime" -> FlowRunFilterStartTime_as_sql_filter(self)
    [] t = "FlowRunFilterExpectedStartTime"
         -> FlowRunFilterExpectedStartTime_as_sql_filter(self)
    [] t = "FlowRunFilterNextScheduledStartTime"
         -> FlowRunFilterNextScheduledStartTime_as_sql_filter(self)
    [] t = "FlowRunFilterParentTaskRunId"
         -> FlowRunFilterParentTaskRunId_as_sql_filter(self)
    [] t = "TaskRunFilterId" -> TaskRunFilterId_as_sql_filter(self)
    [] t = "TaskRunFilterTags" -> TaskRunFilterTags_as_sql_filter(self)
    [] t = "TaskRunFilterStateType" -> TaskRunFilterStateType_as_sql_filter(self)
    [] t = "TaskRunFilterStartTime" -> TaskRunFilterStartTime_as_sql_filter(self)

\* ---------------------------------------------------------------- composite filters
Composites == {"FlowFilter", "FlowRunFilter", "TaskRunFilter"}

\* the fields of each composite in the order the class declares them
DeclaredFields(c) ==
  CASE c = "FlowFilter" -> <<"id", "name", "tags">>
    [] c = "FlowRunFilter" ->
         <<"id", "tags", "deployment_id", "state_type", "flow_version", "start_time",
           "expected_start_time", "next_scheduled_start_time", "parent_task_run_id">>
    [] c = "TaskRunFilter" -> <<"id", "tags", "state_type", "start_time">>

FieldSet(c) == {DeclaredFields(c)[i] : i \in 1..Len(DeclaredFields(c))}

\* the leaf class a composite's field is annotated with
FieldType(c, f) ==
  CASE c = "FlowFilter" ->
         (CASE f = "id" -> "FlowFilterId"
            [] f = "name" -> "FlowFilterName"
            [] f = "tags" -> "FlowFilterTags")
    [] c = "FlowRunFilter" ->
         (CASE f = "id" -> "FlowRunFilterId"
            [] f = "tags" -> "FlowRunFilterTags"
            [] f = "deployment_id" -> "FlowRunFilterDeploymentId"
            [] f = "state_type" -> "FlowRunFilterStateType"
            [] f = "flow_version" -> "FlowRunFilterFlowVersion"
            [] f = "start_time" -> "FlowRunFilterStartTime"
            [] f = "expected_start_time" -> "FlowRunFilterExpectedStartTime"
            [] f = "next_scheduled_start_time" -> "FlowRunFilterNextScheduledStartTime"
            [] f = "parent_task_run_id" -> "FlowRunFilterParentTaskRunId")
    [] c = "TaskRunFilter" ->
         (CASE f = "id" -> "TaskRunFilterId"
            [] f = "tags" -> "TaskRunFilterTags"
            [] f = "state_type" -> "TaskRunFilterStateType"
            [] f = "start_time" -> "TaskRunFilterStartTime")

FlowFilter_as_sql_filter(self) ==
  LET f0 == <<>>
      f1 == IF self.id # None
            THEN Append(f0, FlowFilterId_as_sql_filter(self.id[1])) ELSE f0
      f2 == IF self.name # None
            THEN Append(f1, FlowFilterName_as_sql_filter(self.name[1])) ELSE f1
      f3 == IF self.tags # None
            THEN Append(f2, FlowFilterTags_as_sql_filter(self.tags[1])) ELSE f2
  IN IF Len(f3) > 0 THEN And(f3) ELSE And(<<TrueLiteral>>)

FlowRunFilter_as_sql_filter(self) ==
  LET f0 == <<>>
      f1 == IF self.id # None
            THEN Append(f0, FlowRunFilterId_as_sql_filter(self.id[1])) ELSE f0
      f2 == IF self.tags # None
            THEN Append(f1, FlowRunFilterTags_as_sql_filter(self.tags[1])) ELSE f1
      f3 == IF self.deployment_id # None
            THEN Append(f2, FlowRunFilterDeploymentId_as_sql_filter(self.deployment_id[1]))
            ELSE f2
      f4 == IF self.flow_version # None
            THEN Append(f3, FlowRunFilterFlowVersion_as_sql_filter(self.flow_version[1]))
            ELSE f3
      f5 == IF self.state_type # None
            THEN Append(f4, FlowRunFilterStateType_as_sql_filter(self.state_type[1]))
            ELSE f4
      f6 == IF self.start_time # None
            THEN Append(f5, FlowRunFilterStartTime_as_sql_filter(self.start_time[1]))
            ELSE f5
      f7 == IF self.expected_start_time # None
            THEN Append(f6, FlowRunFilterExpectedStartTime_as_sql_filter(
                              self.expected_start_time[1]))
            ELSE f6
      f8 == IF self.next_scheduled_start_time # None
            THEN Append(f7, FlowRunFilterNextScheduledStartTime_as_sql_filter(
                              self.next_scheduled_start_time[1]))
            ELSE f7
      f9 == IF self.parent_task_run_id # None
            THEN Append(f8, FlowRunFilterParentTaskRunId_as_sql_filter(
                              self.parent_task_run_id[1]))
            ELSE f8
  IN IF Len(f9) > 0 THEN And(f9) ELSE And(<<TrueLiteral>>)

\* variant: the state_type leaf is left out of the conjunction
TaskRunFilter_as_sql_filter_without_state_type(self) ==
  LET f0 == <<>>
      f1 == IF self.id # None
            THEN Append(f0, TaskRunFilterId_as_sql_filter(self.id[1])) ELSE f0
      f2 == IF self.tags # None
            THEN Append(f1, TaskRunFilterTags_as_sql_filter(self.tags[1])) ELSE f1
      f4 == IF self.start_time # None
            THEN Append(f2, TaskRunFilterStartTime_as_sql_filter(self.start_time[1])) ELSE f2
  IN IF Len(f4) > 0 THEN And(f4) ELSE And(<<TrueLiteral>>)

TaskRunFilter_as_sql_filter(self) ==
  LET f0 == <<>>
      f1 == IF self.id # None
            THEN Append(f0, TaskRunFilterId_as_sql_filter(self.id[1])) ELSE f0
      f2 == IF self.tags # None
            THEN Append(f1, TaskRunFilterTags_as_sql_filter(self.tags[1])) ELSE f1
      f3 == IF self.state_type # None
            THEN Append(f2, TaskRunFilterStateType_as_sql_filter(self.state_type[1])) ELSE f2
      f4 == IF self.start_time # None
            THEN Append(f3, TaskRunFilterStartTime_as_sql_filter(self.start_time[1])) ELSE f3
  IN IF Len(f4) > 0 THEN And(f4) ELSE And(<<TrueLiteral>>)

CompositeCompile(c, self) ==
  CASE c = "FlowFilter" -> FlowFilter_as_sql_filter(self)
    [] c = "FlowRunFilter" -> FlowRunFilter_as_sql_filter(self)
    [] c = "TaskRunFilter" -> TaskRunFilter_as_sql_filter(self)

\* ---------------------------------------------------------------- construction
\* a leaf is built from its field values and passes the root validators
LeafErrors(t, payload) == RootValidate(payload)

\* A composite input is the request mapping: a function from the supplied
\* field names to their leaf payloads (the constructor reads it by field name).
Supplied(inp) == DOMAIN inp
PayloadOf(inp, f) == inp[f]
EmptyInput == [f \in {} |-> None]
WithLeaf(inp, f, p) == [g \in DOMAIN inp \cup {f} |-> IF g = f THEN p ELSE inp[g]]

\* every way to give each field of the set F a payload of its leaf class
RECURSIVE InputsOver(_, _)
InputsOver(c, F) ==
  IF F = {} THEN {EmptyInput}
  ELSE LET f == CHOOSE g \in F : TRUE
       IN {WithLeaf(rest, f, p) :
             p \in LeafInputs(FieldType(c, f)), rest \in InputsOver(c, F \ {f})}

\* the sets of fields a caller may supply
FieldChoices(c) == {F \in SUBSET FieldSet(c) : Cardinality(F) <= MaxLeaves}

\* fields whose leaf payload failed its own validation
FailedFields(c, inp) ==
  {f \in Supplied(inp) : LeafErrors(FieldType(c, f), PayloadOf(inp, f)) # {}}

\* the values the composite's root validators see: every declared field whose
\* validation succeeded; an omitted Optional field is None
CompositeValues(c, inp) ==
  [f \in FieldSet(c) \ FailedFields(c, inp) |->
     IF f \in Supplied(inp) THEN Some(PayloadOf(inp, f)) ELSE None]

CompositeErrors(c, inp) ==
  UNION {LeafErrors(FieldType(c, f), PayloadOf(inp, f)) : f \in Supplied(inp)}
  \cup RootValidate(CompositeValues(c, inp))

\* ---------------------------------------------------------------- state machine
VARIABLES
  pc,        \* "idle", "constructed" or "failed"
  cls,       \* class of the object the caller constructs
  input,     \* the raw input the constructor was given
  obj,       \* the constructed instance (its field values), None after a failure
  errors,    \* the validation errors of a failed construction
  compiled   \* the results of the as_sql_filter calls made so far, in order

vars == <<pc, cls, input, obj, errors, compiled>>

Init ==
  /\ pc = "idle"
  /\ cls = "None"
  /\ input = None
  /\ obj = None
  /\ errors = {}
  /\ compiled = <<>>

Finish(c, inp, errs, values) ==
  /\ cls' = c
  /\ input' = inp
  /\ errors' = errs
  /\ pc' = IF errs = {} THEN "constructed" ELSE "failed"
  /\ obj' = IF errs = {} THEN values ELSE None
  /\ compiled' = <<>>

ConstructPagination ==
  /\ pc = "idle"
  /\ \E inp \in PaginationInputs :
       Finish("Pagination", inp, PaginationErrors(inp), PaginationValues(inp))

ConstructLeaf ==
  /\ pc = "idle"
  /\ \E t \in LeafTypes : \E inp \in LeafInputs(t) :
       Finish(t, inp, LeafErrors(t, inp), inp)

ConstructComposite ==
  /\ pc = "idle"
  /\ \E c \in Composites : \E F \in FieldChoices(c) : \E inp \in InputsOver(c, F) :
       Finish(c, inp, CompositeErrors(c, inp), CompositeValues(c, inp))

\* instance.as_sql_filter(): reads the instance, assigns nothing to it
CompileLeaf ==
  /\ pc = "constructed"
  /\ cls \in LeafTypes
  /\ Len(compiled) < MaxCompiles
  /\ compiled' = Append(compiled, LeafCompile(cls, obj))
  /\ UNCHANGED <<pc, cls, input, obj, errors>>

\* variant: compiling consumes the leaves, leaving the composite empty
CompileComposite_consuming ==
  /\ pc = "constructed"
  /\ cls \in Composites
  /\ Len(compiled) < MaxCompiles
  /\ compiled' = Append(compiled, CompositeCompile(cls, obj))
  /\ obj' = [f \in DOMAIN obj |-> None]
  /\ UNCHANGED <<pc, cls, input, errors>>

CompileComposite ==
  /\ pc = "constructed"
  /\ cls \in Composites
  /\ Len(compiled) < MaxCompiles
  /\ compiled' = Append(compiled, CompositeCompile(cls, obj))
  /\ UNCHANGED <<pc, cls, input, obj, errors>>

Next ==
  \/ ConstructPagination
  \/ ConstructLeaf
  \/ ConstructComposite
  \/ CompileLeaf
  \/ CompileComposite

Spec == Init /\ [][Next]_vars

\* ================================================================ properties
\* Vocabulary of the properties, stated on raw field values.
Present(values, key) == Get(values, key) # None
AllAbsent(values) == \A k \in DOMAIN values : values[k] = None
ExclusivePairs == {<<"all_", "is_null_">>, <<"any_", "is_null_">>, <<"any_", "not_any_">>}
BothOfAPair(values) ==
  \E pr \in ExclusivePairs : Present(values, pr[1]) /\ Present(values, pr[2])
BothBounds(values) == Present(values, "before_") /\ Present(values, "after_")
RangeInverted(values) == BothBounds(values) /\ values.before_[1] < values.after_[1]
RangeTypes ==
  {"FlowRunFilterStartTime", "FlowRunFilterExpectedStartTime",
   "FlowRunFilterNextScheduledStartTime", "TaskRunFilterStartTime"}
PredicateOps ==
  {"IN", "NOT_IN", "SUPERSET", "IS_EMPTY", "IS_NOT_EMPTY", "LE", "GE", "BETWEEN"}
Range(seq) == {seq[i] : i \in 1..Len(seq)}
Populated(self) == {f \in DOMAIN self : self[f] # None}

\* the column each leaf class filters on
ColumnOf(t) ==
  CASE t = "FlowFilterId" -> "Flow.id"
    [] t = "FlowFilterName" -> "Flow.name"
    [] t = "FlowFilterTags" -> "Flow.tags"
    [] t = "FlowRunFilterId" -> "FlowRun.id"
    [] t = "FlowRunFilterTags" -> "FlowRun.tags"
    [] t = "FlowRunFilterDeploymentId" -> "FlowRun.deployment_id"
    [] t = "FlowRunFilterStateType" -> "FlowRun.state_type"
    [] t = "FlowRunFilterFlowVersion" -> "FlowRun.flow_version"
    [] t = "FlowRunFilterStartTime" -> "FlowRun.start_time"
    [] t = "FlowRunFilterExpectedStartTime" -> "FlowRun.expected_start_time"
    [] t = "FlowRunFilterNextScheduledStartTime" -> "FlowRun.next_scheduled_start_time"
    [] t = "FlowRunFilterParentTaskRunId" -> "FlowRun.parent_task_run_id"
    [] t = "TaskRunFilterId" -> "TaskRun.id"
    [] t = "TaskRunFilterTags" -> "TaskRun.tags"
    [] t = "TaskRunFilterStateType" -> "TaskRun.state_type"
    [] t = "TaskRunFilterStartTime" -> "TaskRun.start_time"

\* C1: a composite filter built with no leaf populated is constructed
\* successfully and every compilation of it yields the zero-child AND().
C1_EmptyCompositeCompilesToTrue ==
  (cls \in Composites /\ pc # "idle" /\ Supplied(input) = {}) =>
    /\ pc = "constructed"
    /\ \A i \in 1..Len(compiled) : compiled[i] = And(<<>>)

\* C2: a leaf whose input has both attributes of an exclusive pair present
\* (whatever their values) is rejected with ConflictingOperators.
C2_BothOfAPairRejected ==
  (cls \in LeafTypes /\ pc # "idle" /\ BothOfAPair(input)) =>
    (pc = "failed" /\ "ConflictingOperators" \in errors)

\* C3: a leaf with every operator absent fails construction with
\* MissingOperator and is never compiled; a leaf with some operator present
\* and no other rule violated is constructed; no leaf held by a constructed
\* composite has every operator absent.
C3_MissingOperator ==
  /\ (cls \in LeafTypes /\ pc # "idle") =>
       /\ AllAbsent(input) =>
            (pc = "failed" /\ "MissingOperator" \in errors /\ compiled = <<>>)
       /\ (~AllAbsent(input) /\ ~BothOfAPair(input) /\ ~RangeInverted(input)) =>
            pc = "constructed"
       /\ pc = "constructed" => ~AllAbsent(obj)
  /\ (cls \in Composites /\ pc = "constructed") =>
       \A f \in Populated(obj) : ~AllAbsent(obj[f][1])

C3_Witness ==
  /\ cls \in LeafTypes
  /\ pc = "failed"
  /\ AllAbsent(input)
  /\ errors = {"MissingOperator"}

\* C4: a range leaf with both bounds set fails with InvalidRange when
\* before_ < after_, is constructed when before_ >= after_, and with equal
\* bounds compiles to BETWEEN(field, after_, before_).
C4_RangeOrdering ==
  (cls \in RangeTypes /\ pc # "idle" /\ BothBounds(input)) =>
    /\ input.before_[1] < input.after_[1] =>
         (pc = "failed" /\ "InvalidRange" \in errors)
    /\ input.before_[1] >= input.after_[1] => pc = "constructed"
    /\ input.before_[1] = input.after_[1] =>
         \A i \in 1..Len(compiled) :
           compiled[i] = Between(ColumnOf(cls), input.after_[1], input.before_[1])

C4_Witness ==
  /\ cls \in RangeTypes
  /\ pc = "constructed"
  /\ BothBounds(input)
  /\ input.before_[1] = input.after_[1]
  /\ Len(compiled) > 0

\* C5: every compilation of a constructed leaf returns a predicate node (never
\* None, never an error), and every child of a compiled composite is one.
C5_CompileReturnsPredicate ==
  \A i \in 1..Len(compiled) :
    /\ cls \in LeafTypes => compiled[i].op \in PredicateOps
    /\ cls \in Composites =>
         /\ compiled[i].op = "AND"
         /\ \A ch \in Range(compiled[i].children) : ch.op \in PredicateOps

C5_Witness ==
  /\ cls = "FlowRunFilterId"
  /\ pc = "constructed"
  /\ obj.any_ = None
  /\ obj.not_any_ = Some(<<>>)
  /\ Len(compiled) > 0

\* C6: the children of a compiled composite are the fragments of its
\* populated leaves in the order the composite declares its fields.
C6_DeclaredFieldOrder ==
  (cls \in Composites /\ pc = "constructed") =>
    \A i \in 1..Len(compiled) :
      LET fields == SelectSeq(DeclaredFields(cls), LAMBDA f : obj[f] # None)
      IN compiled[i].children =
           [k \in 1..Len(fields) |-> LeafCompile(FieldType(cls, fields[k]), obj[fields[k]][1])]

\* C7: a compiled composite is one AND whose children are exactly the
\* fragments of the populated leaves, one each, and none of them an OR.
C7_ConjunctionOfPopulatedLeaves ==
  (cls \in Composites /\ pc = "constructed") =>
    \A i \in 1..Len(compiled) :
      LET children == compiled[i].children
          fragment(f) == LeafCompile(FieldType(cls, f), obj[f][1])
      IN /\ compiled[i].op = "AND"
         /\ Len(children) = Cardinality(Populated(obj))
         /\ Range(children) = {fragment(f) : f \in Populated(obj)}
         /\ \A ch \in Range(children) : ch.op # "OR"

C7_Witness ==
  /\ cls = "FlowRunFilter"
  /\ pc = "constructed"
  /\ Cardinality(Populated(obj)) >= 2
  /\ Len(compiled) > 0

\* the predicate the set operator of a leaf stands for
OperatorPredicate(col, self) ==
  IF Present(self, "any_") THEN In(col, self.any_[1])
  ELSE IF Present(self, "not_any_") THEN NotIn(col, self.not_any_[1])
  ELSE IF Present(self, "all_") THEN Superset(col, self.all_[1])
  ELSE IF Present(self, "is_null_")
       THEN (IF self.is_null_[1] THEN IsEmpty(col) ELSE IsNotEmpty(col))
  ELSE IF BothBounds(self) THEN Between(col, self.after_[1], self.before_[1])
  ELSE IF Present(self, "before_") THEN Le(col, self.before_[1])
  ELSE Ge(col, self.after_[1])

\* the operator families set on a leaf; the two bounds form one family
FamiliesSet(self) ==
  {k \in {"any_", "not_any_", "all_", "is_null_"} : Present(self, k)}
  \cup (IF Present(self, "before_") \/ Present(self, "after_") THEN {"range"} ELSE {})

\* C8: a constructed leaf has exactly one operator family set and every
\* compilation of it is the predicate of that operator on the leaf's column.
C8_LeafCompilesItsOperator ==
  (cls \in LeafTypes /\ pc = "constructed") =>
    /\ Cardinality(FamiliesSet(obj)) = 1
    /\ \A i \in 1..Len(compiled) : compiled[i] = OperatorPredicate(ColumnOf(cls), obj)

\* C9: Pagination fails with OutOfRange exactly when a given limit is negative
\* or above the maximum or a given offset is negative; otherwise limit and
\* offset are the given values or the defaults and lie within the bounds.
C9_PaginationBounds ==
  (cls = "Pagination" /\ pc # "idle") =>
    LET bad == \/ (input.limit # None /\ (input.limit[1] < 0 \/ input.limit[1] > default_limit))
               \/ (input.offset # None /\ input.offset[1] < 0)
    IN /\ (pc = "failed") <=> bad
       /\ pc = "failed" => errors = {"OutOfRange"}
       /\ pc = "constructed" =>
            /\ obj.limit = (IF input.limit = None THEN default_limit ELSE input.limit[1])
            /\ obj.offset = (IF input.offset = None THEN 0 ELSE input.offset[1])
            /\ 0 <= obj.limit /\ obj.limit <= default_limit
            /\ obj.offset >= 0

C9_Witness ==
  /\ cls = "Pagination"
  /\ pc = "constructed"
  /\ input.limit = None
  /\ input.offset = None

====
